---- MODULE Spec2Model ----
(***************************************************************************)
(* Mechanical binary marble counter (marble_counter.py, 4 bit mechanisms) *)
(* and its single-mechanism variant (single_counter.py).                  *)
(*                                                                         *)
(* Both programs share the same main(): set-up of the physics space, the   *)
(* gate, the bit mechanisms and the seeded marbles, then a fixed-timestep  *)
(* run loop: drain events, advance the gate timer, step the physics        *)
(* engine, compute the readout.  The variable prog selects the program.    *)
(*                                                                         *)
(* Units: a body angle is an integer number of 1e-5 rad; math.degrees      *)
(* yields whole microdegrees (floor), pi taken as 5419351/1725033: on      *)
(* every angle of that grid within the limits this is the floor of the     *)
(* float the code computes, and no grid angle lies within a microdegree    *)
(* above a threshold, so the strict tests agree.  The physics engine is an *)
(* external collaborator: a step moves every mechanism to any angle the    *)
(* rotary limit joint allows (drawn from a sample set).                    *)
(***************************************************************************)
EXTENDS Integers, Sequences, FiniteSets

VARIABLES
    prog,                    \* "marble" (marble_counter.py) or "single" (single_counter.py)
    pc,                      \* position of main(): create, tilt, seed, poll, events, physics, readout, done
    running,                 \* the loop flag
    pending,                 \* events returned by pygame.event.get() not yet handled this tick
    gate_pos,                \* gate_body.position
    gate_timer,              \* gate_timer
    total_marbles_launched,  \* total_marbles_launched
    marbles,                 \* number of marble bodies in the space (len(marbles))
    mechanisms,              \* body.angle of every mechanism created so far, bit 0 first
    constraints,             \* joints added to the space, in order of creation
    static_shapes,           \* number of static segments added to the space
    binary_val,              \* marble_counter: the integer of the last readout
    bits,                    \* marble_counter: val of every mechanism in the last readout
    parity,                  \* single_counter: the state string of the last readout
    issued,                  \* history: launch key presses delivered by the event queue so far
    advances,                \* history: gate timer advances since the last launch was handled
    open_steps,              \* history: physics steps taken with the gate open since the last launch
    closed_steps,            \* history: physics steps taken with the gate closed since the last launch
    relaunch,                \* history: the last launch was handled while the gate was already open
    tick_log,                \* history: the phases the current tick has completed, in order
    step_dt                  \* history: <<numerator, denominator>> of the last physics step's delta

vars == <<prog, pc, running, pending, gate_pos, gate_timer, total_marbles_launched,
          marbles, mechanisms, constraints, static_shapes, binary_val, bits, parity,
          issued, advances, open_steps, closed_steps, relaunch, tick_log, step_dt>>

gateVars == <<gate_pos, gate_timer, total_marbles_launched>>
worldVars == <<marbles, mechanisms, constraints, static_shapes>>
readoutVars == <<binary_val, bits, parity>>
historyVars == <<issued, advances, open_steps, closed_steps, relaunch, tick_log, step_dt>>

-----------------------------------------------------------------------------
(* Bounds of the model *)

MaxLaunches == 3      \* launch key presses delivered over a run
MaxEvents == 2        \* events returned by one pygame.event.get()

-----------------------------------------------------------------------------
(* Program constants *)

FPS == 60
GateOpenSteps == 15
LimitDegrees == 35
ThresholdDegrees == 5
MarbleSeed == 10
SingleSeed == 5
MarbleWidth == 1000
SingleWidth == 800
SingleHeight == 600
GateOffset == 40

Programs == {"marble", "single"}

\* pi as the fraction PiNum / PiDen (off by less than 1e-14)
PiNum == 5419351
PiDen == 1725033

\* <<quotient, remainder>> of x * n divided by d, for x >= 0, one decimal digit of x
\* at a time so that no intermediate value leaves 32 bits
RECURSIVE MulDiv(_, _, _)
MulDiv(x, n, d) ==
    IF x = 0 THEN <<0, 0>>
    ELSE LET p == MulDiv(x \div 10, n, d)
             t == p[2] * 10 + (x % 10) * n
         IN  <<p[1] * 10 + t \div d, t % d>>

\* math.radians(d) for an integer number of degrees d >= 0, in 1e-5 rad (floor)
Radians(d) == MulDiv(d * 5000, PiNum, 9 * PiDen)[1]

\* math.degrees(a) for an angle in 1e-5 rad, in microdegrees (floor)
Degrees(a) ==
    LET p == MulDiv((IF a < 0 THEN -a ELSE a) * 1800, PiDen, PiNum)
    IN  IF a >= 0 THEN p[1]
        ELSE IF p[2] = 0 THEN -p[1] ELSE -p[1] - 1

\* ThresholdDegrees in the unit of Degrees
ThresholdMicro == ThresholdDegrees * 1000000

\* tube_x returned by create_boundaries (marble_counter) / WIDTH // 2 (single_counter)
TubeX(p) == IF p = "marble" THEN MarbleWidth - 200 ELSE SingleWidth \div 2

gate_closed_pos(p) == IF p = "marble" THEN <<TubeX(p), 103>> ELSE <<TubeX(p), 110>>

gate_open_pos(p) == IF p = "marble" THEN <<TubeX(p) + GateOffset, 103>>
                    ELSE <<TubeX(p) + GateOffset, 110>>

\* pivot positions of the mechanisms, bit 0 first
bits_pos(p) ==
    IF p = "marble"
    THEN << <<MarbleWidth - 180, 220>>, <<MarbleWidth - 430, 450>>,
            <<MarbleWidth - 680, 680>>, <<MarbleWidth - 930, 910>> >>
    ELSE << <<SingleWidth \div 2, SingleHeight \div 2 + 50>> >>

NumMechanisms(p) == Len(bits_pos(p))

NumSeed(p) == IF p = "marble" THEN MarbleSeed ELSE SingleSeed

\* the events the loop distinguishes: QUIT, KEYDOWN of the space key, KEYDOWN of another key
QuitEvent == [type |-> "QUIT", key |-> "NONE"]
SpaceEvent == [type |-> "KEYDOWN", key |-> "K_SPACE"]
OtherKeyEvent == [type |-> "KEYDOWN", key |-> "K_a"]
Events == {QuitEvent, SpaceEvent, OtherKeyEvent}

Min(a, b) == IF a < b THEN a ELSE b

RECURSIVE SeqsUpTo(_, _)
SeqsUpTo(S, n) ==
    IF n = 0 THEN {<<>>}
    ELSE LET shorter == SeqsUpTo(S, n - 1)
         IN  shorter \cup {Append(s, e) : s \in {t \in shorter : Len(t) = n - 1}, e \in S}

IsLaunch(e) == e.type = "KEYDOWN" /\ e.key = "K_SPACE"

RECURSIVE CountLaunches(_)
CountLaunches(evs) ==
    IF evs = <<>> THEN 0
    ELSE (IF IsLaunch(Head(evs)) THEN 1 ELSE 0) + CountLaunches(Tail(evs))


\* the last angle of the grid that math.degrees does not put above the threshold
\* (4.9996 degrees; the next one is 5.0002 degrees)
LastInBand ==
    CHOOSE a \in 0..Radians(LimitDegrees) :
        Degrees(a) <= ThresholdMicro /\ Degrees(a + 1) > ThresholdMicro

\* angles a physics step of the run loop may produce (the limit joint allows them all):
\* both limits and the last angle of the deadband
StepAngles == {-Radians(LimitDegrees), LastInBand, Radians(LimitDegrees)}

\* angles at the limits, at both ends of the deadband and just beyond them, for the
\* readout taken alone
ReadoutAngles == {-Radians(LimitDegrees), -(LastInBand + 1), -LastInBand,
                  LastInBand, LastInBand + 1, Radians(LimitDegrees)}

\* 2 * i written for 2 ** i
Pow2_Linear(i) == 2 * i

RECURSIVE Pow2(_)
Pow2(i) == IF i = 0 THEN 1 ELSE 2 * Pow2(i - 1)

-----------------------------------------------------------------------------
(* State after create_space, create_boundaries and create_gate: the floor and *)
(* the two tube walls are in the space, the gate is at its closed position.   *)
(* The locals main() binds further down before the loop (gate_timer = 0,      *)
(* total_marbles_launched = 0, marbles = [], running = True) carry those      *)
(* values from the start; the readout locals are bound by the first readout.  *)

Init ==
    /\ prog \in Programs
    /\ pc = "create"
    /\ running = TRUE
    /\ pending = <<>>
    /\ gate_pos = gate_closed_pos(prog)
    /\ gate_timer = 0
    /\ total_marbles_launched = 0
    /\ marbles = 0
    /\ mechanisms = <<>>
    /\ constraints = <<>>
    /\ static_shapes = 3
    /\ binary_val = 0
    /\ bits = <<>>
    /\ parity = ""
    /\ issued = 0
    /\ advances = 0
    /\ open_steps = 0
    /\ closed_steps = 0
    /\ relaunch = FALSE
    /\ tick_log = <<>>
    /\ step_dt = <<0, 1>>

-----------------------------------------------------------------------------
(* Set-up: mechanisms, funnels, marbles *)

\* the two joints create_counter_mechanism adds for mechanism i
MechanismJoints(p, i) ==
    << [kind |-> "pivot", body |-> i, anchor |-> bits_pos(p)[i]],
       [kind |-> "limit", body |-> i, min |-> -Radians(LimitDegrees),
        max |-> Radians(LimitDegrees)] >>

\* create_counter_mechanism(space, pos): a new body (angle 0) with its pivot and limit joints
CreateMechanism ==
    /\ pc = "create"
    /\ Len(mechanisms) < NumMechanisms(prog)
    /\ mechanisms' = Append(mechanisms, 0)
    /\ constraints' = constraints \o MechanismJoints(prog, Len(mechanisms) + 1)
    /\ pc' = "tilt"
    /\ UNCHANGED <<prog, running, pending, gateVars, marbles, static_shapes,
                   readoutVars, historyVars>>

\* body.angle = -math.radians(35); in marble_counter a catch funnel for every bit but bit 0
TiltMechanism ==
    /\ pc = "tilt"
    /\ mechanisms' = [mechanisms EXCEPT ![Len(mechanisms)] = -Radians(LimitDegrees)]
    /\ static_shapes' = IF prog = "marble" /\ Len(mechanisms) - 1 > 0
                        THEN static_shapes + 2 ELSE static_shapes
    /\ pc' = IF Len(mechanisms) < NumMechanisms(prog) THEN "create" ELSE "seed"
    /\ UNCHANGED <<prog, running, pending, gateVars, marbles, constraints,
                   readoutVars, historyVars>>

\* one iteration of the seeding loop: marbles.append(spawn_marble(...))
SpawnMarble ==
    /\ pc = "seed"
    /\ marbles < NumSeed(prog)
    /\ marbles' = marbles + 1
    /\ pc' = IF marbles + 1 < NumSeed(prog) THEN "seed" ELSE "poll"
    /\ UNCHANGED <<prog, running, pending, gateVars, mechanisms, constraints,
                   static_shapes, readoutVars, historyVars>>

-----------------------------------------------------------------------------
(* Run loop: events *)

EventLists == SeqsUpTo(Events, MaxEvents)

\* while running: ... pygame.event.get()
PollEvents ==
    /\ pc = "poll"
    /\ running
    /\ \E evs \in EventLists :
        /\ issued + CountLaunches(evs) <= MaxLaunches
        /\ pending' = evs
        /\ issued' = issued + CountLaunches(evs)
    /\ tick_log' = <<"events">>
    /\ pc' = "events"
    /\ UNCHANGED <<prog, running, gateVars, worldVars, readoutVars,
                   advances, open_steps, closed_steps, relaunch, step_dt>>

\* event.type == pygame.QUIT
HandleQuit ==
    /\ pc = "events"
    /\ pending # <<>>
    /\ Head(pending).type = "QUIT"
    /\ running' = FALSE
    /\ pending' = Tail(pending)
    /\ UNCHANGED <<prog, pc, gateVars, worldVars, readoutVars, historyVars>>

\* a launch while the gate is open is dropped: no re-arm of the timer
HandleLaunch_NoRearm ==
    /\ pc = "events"
    /\ pending # <<>>
    /\ IsLaunch(Head(pending))
    /\ gate_pos' = gate_open_pos(prog)
    /\ gate_timer' = IF gate_timer > 0 THEN gate_timer ELSE GateOpenSteps
    /\ total_marbles_launched' = total_marbles_launched + 1
    /\ pending' = Tail(pending)
    /\ advances' = 0
    /\ open_steps' = 0
    /\ closed_steps' = 0
    /\ relaunch' = (gate_pos = gate_open_pos(prog))
    /\ UNCHANGED <<prog, pc, running, worldVars, readoutVars, issued, tick_log, step_dt>>

\* a launch is counted only when it opens the gate
HandleLaunch_CountOpening ==
    /\ pc = "events"
    /\ pending # <<>>
    /\ IsLaunch(Head(pending))
    /\ gate_pos' = gate_open_pos(prog)
    /\ gate_timer' = GateOpenSteps
    /\ total_marbles_launched' = IF gate_timer = 0 THEN total_marbles_launched + 1
                                 ELSE total_marbles_launched
    /\ pending' = Tail(pending)
    /\ advances' = 0
    /\ open_steps' = 0
    /\ closed_steps' = 0
    /\ relaunch' = (gate_pos = gate_open_pos(prog))
    /\ UNCHANGED <<prog, pc, running, worldVars, readoutVars, issued, tick_log, step_dt>>

\* a launch takes the marble it releases out of the world
HandleLaunch_PopMarble ==
    /\ pc = "events"
    /\ pending # <<>>
    /\ IsLaunch(Head(pending))
    /\ gate_pos' = gate_open_pos(prog)
    /\ gate_timer' = GateOpenSteps
    /\ total_marbles_launched' = total_marbles_launched + 1
    /\ marbles' = marbles - 1
    /\ pending' = Tail(pending)
    /\ advances' = 0
    /\ open_steps' = 0
    /\ closed_steps' = 0
    /\ relaunch' = (gate_pos = gate_open_pos(prog))
    /\ UNCHANGED <<prog, pc, running, mechanisms, constraints, static_shapes,
                   readoutVars, issued, tick_log, step_dt>>

\* event.type == pygame.KEYDOWN and event.key == pygame.K_SPACE
HandleLaunch ==
    /\ pc = "events"
    /\ pending # <<>>
    /\ IsLaunch(Head(pending))
    /\ gate_pos' = gate_open_pos(prog)
    /\ gate_timer' = GateOpenSteps
    /\ total_marbles_launched' = total_marbles_launched + 1
    /\ pending' = Tail(pending)
    /\ advances' = 0
    /\ open_steps' = 0
    /\ closed_steps' = 0
    /\ relaunch' = (gate_pos = gate_open_pos(prog))
    /\ UNCHANGED <<prog, pc, running, worldVars, readoutVars, issued, tick_log, step_dt>>

\* any other event: no branch of the loop body applies
HandleOther ==
    /\ pc = "events"
    /\ pending # <<>>
    /\ Head(pending).type # "QUIT"
    /\ ~IsLaunch(Head(pending))
    /\ pending' = Tail(pending)
    /\ UNCHANGED <<prog, pc, running, gateVars, worldVars, readoutVars, historyVars>>

-----------------------------------------------------------------------------
(* Run loop: gate timer, physics step *)

\* the gate is put back one advance early (gate_timer == 1 tested for gate_timer == 0)
AdvanceGate_CloseEarly ==
    /\ pc = "events"
    /\ pending = <<>>
    /\ IF gate_timer > 0
       THEN /\ gate_timer' = gate_timer - 1
            /\ gate_pos' = IF gate_timer - 1 = 1 THEN gate_closed_pos(prog) ELSE gate_pos
       ELSE UNCHANGED <<gate_timer, gate_pos>>
    /\ advances' = Min(advances + 1, GateOpenSteps + 1)
    /\ tick_log' = Append(tick_log, "gate")
    /\ pc' = "physics"
    /\ UNCHANGED <<prog, running, pending, total_marbles_launched, worldVars,
                   readoutVars, issued, open_steps, closed_steps, relaunch, step_dt>>

\* the timer runs out but the gate is never put back
AdvanceGate_NoClose ==
    /\ pc = "events"
    /\ pending = <<>>
    /\ IF gate_timer > 0
       THEN /\ gate_timer' = gate_timer - 1
            /\ UNCHANGED gate_pos
       ELSE UNCHANGED <<gate_timer, gate_pos>>
    /\ advances' = Min(advances + 1, GateOpenSteps + 1)
    /\ tick_log' = Append(tick_log, "gate")
    /\ pc' = "physics"
    /\ UNCHANGED <<prog, running, pending, total_marbles_launched, worldVars,
                   readoutVars, issued, open_steps, closed_steps, relaunch, step_dt>>

\* the loop is left as soon as the stop signal has been seen (a break on QUIT)
AdvanceGate_BreakOnQuit ==
    /\ pc = "events"
    /\ pending = <<>>
    /\ IF running
       THEN /\ IF gate_timer > 0
               THEN /\ gate_timer' = gate_timer - 1
                    /\ gate_pos' = IF gate_timer - 1 = 0 THEN gate_closed_pos(prog)
                                   ELSE gate_pos
               ELSE UNCHANGED <<gate_timer, gate_pos>>
            /\ advances' = Min(advances + 1, GateOpenSteps + 1)
            /\ tick_log' = Append(tick_log, "gate")
            /\ pc' = "physics"
       ELSE /\ pc' = "done"
            /\ UNCHANGED <<gate_timer, gate_pos, advances, tick_log>>
    /\ UNCHANGED <<prog, running, pending, total_marbles_launched, worldVars,
                   readoutVars, issued, open_steps, closed_steps, relaunch, step_dt>>

\* if gate_timer > 0: gate_timer -= 1; if gate_timer == 0: position = closed
AdvanceGate ==
    /\ pc = "events"
    /\ pending = <<>>
    /\ IF gate_timer > 0
       THEN /\ gate_timer' = gate_timer - 1
            /\ gate_pos' = IF gate_timer - 1 = 0 THEN gate_closed_pos(prog) ELSE gate_pos
       ELSE UNCHANGED <<gate_timer, gate_pos>>
    /\ advances' = Min(advances + 1, GateOpenSteps + 1)
    /\ tick_log' = Append(tick_log, "gate")
    /\ pc' = "physics"
    /\ UNCHANGED <<prog, running, pending, total_marbles_launched, worldVars,
                   readoutVars, issued, open_steps, closed_steps, relaunch, step_dt>>

\* space.step(1.0 / FPS): the engine moves the mechanisms within their limit joints;
\* the kinematic gate (zero velocity) stays where it was put, no body is removed
PhysicsStep ==
    /\ pc = "physics"
    /\ mechanisms' \in [1..Len(mechanisms) -> StepAngles]
    /\ step_dt' = <<1, FPS>>
    /\ IF gate_pos = gate_open_pos(prog)
       THEN /\ open_steps' = Min(open_steps + 1, GateOpenSteps + 1)
            /\ UNCHANGED closed_steps
       ELSE /\ closed_steps' = Min(closed_steps + 1, 2)
            /\ UNCHANGED open_steps
    /\ tick_log' = Append(tick_log, "physics")
    /\ pc' = "readout"
    /\ UNCHANGED <<prog, running, pending, gateVars, marbles, constraints,
                   static_shapes, readoutVars, issued, advances, relaunch>>

-----------------------------------------------------------------------------
(* Run loop: readout *)

\* angle > 0 written for angle > 5: no deadband
Val_NoBand(a) == IF Degrees(a) > 0 THEN 1 ELSE 0

\* marble_counter: val = 1 if angle > 5 else 0
Val(a) == IF Degrees(a) > ThresholdMicro THEN 1 ELSE 0

\* single_counter: parity = "PAR" if angle > 5 else "IMPAR" if angle < -5 else "..."
Parity(a) ==
    IF Degrees(a) > ThresholdMicro THEN "PAR"
    ELSE IF Degrees(a) < -ThresholdMicro THEN "IMPAR"
    ELSE "..."

\* binary_val = 0; for i, m in enumerate(mechanisms): binary_val += val * (2**i)
\* (i counts from 0; ms[i + 1] is mechanism i)
RECURSIVE ReadoutLoop(_, _, _)
ReadoutLoop(ms, i, acc) ==
    IF i >= Len(ms) THEN acc
    ELSE ReadoutLoop(ms, i + 1, acc + Val(ms[i + 1]) * Pow2(i))

\* where the while loop goes after the tick
AfterTick == IF running THEN "poll" ELSE "done"

ReadoutMarble ==
    /\ pc = "readout"
    /\ prog = "marble"
    /\ binary_val' = ReadoutLoop(mechanisms, 0, 0)
    /\ bits' = [i \in 1..Len(mechanisms) |-> Val(mechanisms[i])]
    /\ tick_log' = Append(tick_log, "readout")
    /\ pc' = AfterTick
    /\ UNCHANGED <<prog, running, pending, gateVars, worldVars, parity,
                   issued, advances, open_steps, closed_steps, relaunch, step_dt>>

\* the angle in degrees is assigned to the body instead of to the local variable
ReadoutSingle_WriteBack ==
    /\ pc = "readout"
    /\ prog = "single"
    /\ parity' = Parity(mechanisms[1])
    /\ mechanisms' = [mechanisms EXCEPT ![1] = Degrees(mechanisms[1])]
    /\ tick_log' = Append(tick_log, "readout")
    /\ pc' = AfterTick
    /\ UNCHANGED <<prog, running, pending, gateVars, marbles, constraints, static_shapes,
                   binary_val, bits, issued, advances, open_steps, closed_steps,
                   relaunch, step_dt>>

ReadoutSingle ==
    /\ pc = "readout"
    /\ prog = "single"
    /\ parity' = Parity(mechanisms[1])
    /\ tick_log' = Append(tick_log, "readout")
    /\ pc' = AfterTick
    /\ UNCHANGED <<prog, running, pending, gateVars, worldVars, binary_val, bits,
                   issued, advances, open_steps, closed_steps, relaunch, step_dt>>

-----------------------------------------------------------------------------
(* Specifications *)

Next ==
    \/ CreateMechanism
    \/ TiltMechanism
    \/ SpawnMarble
    \/ PollEvents
    \/ HandleQuit
    \/ HandleLaunch
    \/ HandleOther
    \/ AdvanceGate
    \/ PhysicsStep
    \/ ReadoutMarble
    \/ ReadoutSingle

Spec == Init /\ [][Next]_vars

RECURSIVE AllJoints(_, _)
AllJoints(p, n) == IF n = 0 THEN <<>> ELSE AllJoints(p, n - 1) \o MechanismJoints(p, n)

RECURSIVE BitsValue(_, _)
BitsValue(bs, n) == IF n = 0 THEN 0 ELSE BitsValue(bs, n - 1) + bs[n] * Pow2(n - 1)

\* The readout taken alone: a tick of the run loop, with no launch so far, that has just
\* stepped the physics engine, with the mechanisms at any sampled angles.  In the first
\* tick the readout locals are not bound yet; in a later tick any earlier readout is on
\* display.  advances and closed_steps count the ticks so far, up to their caps.
InitReadout ==
    /\ prog \in Programs
    /\ pc = "readout"
    /\ running \in BOOLEAN
    /\ pending = <<>>
    /\ gate_pos = gate_closed_pos(prog)
    /\ gate_timer = 0
    /\ total_marbles_launched = 0
    /\ marbles = NumSeed(prog)
    /\ mechanisms \in [1..NumMechanisms(prog) -> ReadoutAngles]
    /\ constraints = AllJoints(prog, NumMechanisms(prog))
    /\ static_shapes = 3 + 2 * (NumMechanisms(prog) - 1)
    /\ advances \in 1..(GateOpenSteps + 1)
    /\ closed_steps = Min(advances, 2)
    /\ IF advances = 1
       THEN /\ bits = <<>>
            /\ binary_val = 0
            /\ parity = ""
       ELSE IF prog = "marble"
       THEN /\ bits \in [1..NumMechanisms(prog) -> {0, 1}]
            /\ binary_val = BitsValue(bits, Len(bits))
            /\ parity = ""
       ELSE /\ bits = <<>>
            /\ binary_val = 0
            /\ parity \in {"PAR", "IMPAR", "..."}
    /\ issued = 0
    /\ open_steps = 0
    /\ relaunch = FALSE
    /\ tick_log = <<"events", "gate", "physics">>
    /\ step_dt = <<1, FPS>>

NextReadout ==
    \/ ReadoutMarble
    \/ ReadoutSingle

SpecReadout == InitReadout /\ [][NextReadout]_vars

-----------------------------------------------------------------------------
(* Properties *)

GateOpen == gate_pos = gate_open_pos(prog)
GateClosed == gate_pos = gate_closed_pos(prog)

\* the step handles a launch: the head of the pending events is a space key press
LaunchStep ==
    /\ pc = "events"
    /\ pending # <<>>
    /\ IsLaunch(Head(pending))
    /\ pending' = Tail(pending)

\* timer and position as a function of the timer advances since the last launch
WindowShape ==
    /\ advances = 0 => (GateOpen /\ gate_timer = GateOpenSteps)
    /\ advances \in 1..(GateOpenSteps - 1) =>
           (GateOpen /\ gate_timer = GateOpenSteps - advances)
    /\ advances >= GateOpenSteps => (GateClosed /\ gate_timer = 0)

FullTick == <<"events", "gate", "physics", "readout">>

\* the three-valued classification of the data model: 1, 0 or transient
Classify(a) ==
    IF Degrees(a) > ThresholdMicro THEN "one"
    ELSE IF Degrees(a) < -ThresholdMicro THEN "zero"
    ELSE "transient"

\* sum of bit_i * 2^i over mechanisms 0..n-1, a transient mechanism counting 0
RECURSIVE PositionalSum(_, _)
PositionalSum(ms, n) ==
    IF n = 0 THEN 0
    ELSE PositionalSum(ms, n - 1)
         + (IF Classify(ms[n]) = "one" THEN 1 ELSE 0) * 2^(n - 1)

\* C1: after a launch handled while the gate was closed and with no launch since, the
\* gate is at open_position with timer 15; each timer advance takes one off the timer;
\* the gate is open through the first 14 advances and is back at closed_position, with
\* timer 0, from the 15th advance on (the advance of the launch tick being the first).
C1_GateCycle ==
    (total_marbles_launched > 0 /\ ~relaunch) => WindowShape

C1_Witness ==
    /\ pc = "physics"
    /\ total_marbles_launched = 1
    /\ ~relaunch
    /\ advances = GateOpenSteps
    /\ GateClosed

\* C2: a launch handled while the gate is open leaves the position at open_position and
\* sets the timer to 15; after the last launch of a burst the gate closes at the 15th
\* timer advance; a closed gate leaves closed_position only in a step that handles a launch.
C2_FlatRearm ==
    /\ []((total_marbles_launched > 0 /\ relaunch) => WindowShape)
    /\ [][/\ (LaunchStep /\ GateOpen) =>
                (gate_pos' = gate_pos /\ gate_timer' = GateOpenSteps)
          /\ (GateClosed /\ gate_pos' # gate_pos) => LaunchStep]_vars

C2_Witness ==
    /\ pc = "readout"
    /\ total_marbles_launched = 2
    /\ relaunch
    /\ advances = GateOpenSteps
    /\ GateClosed

\* C3: in marble_counter the integer of a readout is the sum of bit_i * 2^i over the
\* mechanisms, bit 0 least significant, a mechanism in the deadband counting 0, whatever
\* the readout before; it lies in 0..15, and bits [1,0,1,1] give 13.
C3_Readout ==
    (prog = "marble" /\ tick_log = FullTick) =>
        /\ binary_val = PositionalSum(mechanisms, Len(mechanisms))
        /\ binary_val \in 0..15
        /\ bits = <<1, 0, 1, 1>> => binary_val = 13

C3_Witness ==
    /\ prog = "marble"
    /\ tick_log = FullTick
    /\ bits = <<1, 0, 1, 1>>
    /\ binary_val = 13
    /\ Classify(mechanisms[2]) = "transient"

\* C4 as stated: both programs classify an angle into three values: 1 above +5 degrees,
\* 0 below -5 degrees, transient (neither 0 nor 1) in between; -35 degrees reads 0.
C4_ThreeValuedBoth ==
    tick_log = FullTick =>
        /\ prog = "marble" =>
              \A i \in 1..Len(mechanisms) :
                  /\ Classify(mechanisms[i]) = "one" => bits[i] = 1
                  /\ Classify(mechanisms[i]) = "zero" => bits[i] = 0
                  /\ Classify(mechanisms[i]) = "transient" => bits[i] \notin {0, 1}
        /\ prog = "single" =>
              /\ Classify(mechanisms[1]) = "one" => parity = "PAR"
              /\ Classify(mechanisms[1]) = "zero" => parity = "IMPAR"
              /\ Classify(mechanisms[1]) = "transient" => parity = "..."

\* C4 amended: single_counter classifies into three values (PAR above +5 degrees, IMPAR
\* below -5 degrees, "..." in between, bounds included); marble_counter into two: 1 above
\* +5 degrees, 0 otherwise, the deadband included; -35 degrees reads 0 (IMPAR).
C4_Classification ==
    tick_log = FullTick =>
        /\ prog = "marble" =>
              \A i \in 1..Len(mechanisms) :
                  /\ Classify(mechanisms[i]) = "one" => bits[i] = 1
                  /\ Classify(mechanisms[i]) = "zero" => bits[i] = 0
                  /\ Classify(mechanisms[i]) = "transient" => bits[i] = 0
                  /\ mechanisms[i] = -Radians(LimitDegrees) => bits[i] = 0
        /\ prog = "single" =>
              /\ Classify(mechanisms[1]) = "one" => parity = "PAR"
              /\ Classify(mechanisms[1]) = "zero" => parity = "IMPAR"
              /\ Classify(mechanisms[1]) = "transient" => parity = "..."
              /\ mechanisms[1] = -Radians(LimitDegrees) => parity = "IMPAR"

C4_Witness ==
    /\ prog = "marble"
    /\ tick_log = FullTick
    /\ mechanisms[1] = LastInBand
    /\ bits[1] = 0
    /\ mechanisms[2] = LastInBand + 1
    /\ bits[2] = 1
    /\ mechanisms[3] = -(LastInBand + 1)
    /\ bits[3] = 0

\* C5: total_marbles_launched starts at 0 and never decreases; with the launches still
\* pending in the current tick it adds up to the launches delivered so far; a step that
\* handles a launch adds exactly 1, gate open or closed, and no other step changes it.
C5_LaunchCount ==
    /\ [](/\ pc \in {"create", "tilt", "seed"} => total_marbles_launched = 0
          /\ total_marbles_launched + CountLaunches(pending) = issued)
    /\ [][/\ total_marbles_launched' >= total_marbles_launched
          /\ LaunchStep => total_marbles_launched' = total_marbles_launched + 1
          /\ ~LaunchStep => total_marbles_launched' = total_marbles_launched]_vars

C5_Witness ==
    /\ pc = "events"
    /\ tick_log = <<"events">>
    /\ total_marbles_launched = 2
    /\ issued = 2
    /\ advances = 0
    /\ relaunch
    /\ open_steps = 0
    /\ closed_steps = 0
    /\ gate_timer = GateOpenSteps

\* C6: once the marbles are seeded (10 in marble_counter, 5 in single_counter) the number
\* of marbles in the world never goes down: no step of the run removes one.
C6_MarblesMonotone ==
    /\ [](pc \notin {"create", "tilt", "seed"} => marbles = NumSeed(prog))
    /\ [][marbles' >= marbles]_vars

C6_Witness ==
    /\ pc = "done"
    /\ prog = "marble"
    /\ marbles = MarbleSeed
    /\ total_marbles_launched > 0

\* some mechanism that exists before the step has another angle after it
AngleWritten == \E i \in 1..Len(mechanisms) : mechanisms'[i] # mechanisms[i]

\* every mechanism has exactly one pivot joint and one limit joint, bounded by -35 and +35 degrees
JointsInPlace ==
    \A i \in 1..Len(mechanisms) :
        /\ Cardinality({k \in DOMAIN constraints :
                           constraints[k].kind = "pivot" /\ constraints[k].body = i}) = 1
        /\ Cardinality({k \in DOMAIN constraints :
                           constraints[k].kind = "limit" /\ constraints[k].body = i}) = 1
        /\ \A k \in DOMAIN constraints :
               (constraints[k].kind = "limit" /\ constraints[k].body = i) =>
                   /\ constraints[k].min = -Radians(LimitDegrees)
                   /\ constraints[k].max = Radians(LimitDegrees)

\* a joint, once added, stays as it is; joints are added only when a mechanism is created
JointsFrozen ==
    /\ \A k \in DOMAIN constraints :
           k \in DOMAIN constraints' /\ constraints'[k] = constraints[k]
    /\ constraints' # constraints => pc = "create"

\* C7 as stated: only the physics step changes a mechanism's angle; the joints are
\* created once and never change.
C7_OnlyPhysicsWrites ==
    /\ []JointsInPlace
    /\ [][(AngleWritten => pc = "physics") /\ JointsFrozen]_vars

\* C7 amended: a mechanism's angle is changed only by the physics step and, once, by the
\* set-up that follows its construction, which sets it to -35 degrees; event handling,
\* the gate timer advance and the readout never write it; the joints are created once
\* and never change.
C7_SetupThenPhysics ==
    /\ []JointsInPlace
    /\ [][/\ AngleWritten =>
                \/ pc = "physics"
                \/ /\ pc = "tilt"
                   /\ mechanisms' = [mechanisms EXCEPT
                                        ![Len(mechanisms)] = -Radians(LimitDegrees)]
          /\ JointsFrozen]_vars

C7_Witness ==
    /\ pc = "readout"
    /\ prog = "marble"
    /\ mechanisms[1] = Radians(LimitDegrees)
    /\ mechanisms[4] = -Radians(LimitDegrees)
    /\ Len(constraints) = 2 * Len(mechanisms)

\* C8 as stated: after one launch handled while the gate was closed, with no launch
\* since, the first physics step taken with the gate back at closed_position follows
\* exactly 15 physics steps taken with the gate at open_position.
C8_FifteenOpenSteps ==
    (/\ pc = "readout"
     /\ total_marbles_launched > 0
     /\ ~relaunch
     /\ closed_steps = 1) => open_steps = GateOpenSteps

\* C9: the gate is at closed_position or at open_position, the timer is in 0..15, and
\* the gate is at open_position exactly when the timer is positive.
C9_GateConsistent ==
    /\ gate_pos \in {gate_closed_pos(prog), gate_open_pos(prog)}
    /\ gate_timer \in 0..GateOpenSteps
    /\ GateOpen <=> gate_timer > 0
    /\ GateClosed <=> gate_timer = 0

C9_Witness ==
    /\ pc = "readout"
    /\ GateOpen
    /\ gate_timer = 1
    /\ closed_steps = 0

\* C10: a tick runs events, gate timer advance, one physics step of 1/FPS and one
\* readout, in that order; the readout is that of the angles after the step; gate
\* position and timer do not change after the physics step; the loop ends only after a
\* complete tick, the tick that saw the stop signal included.
C10_TickOrder ==
    /\ [](/\ \E n \in 0..Len(FullTick) : tick_log = SubSeq(FullTick, 1, n)
          /\ (pc \in {"poll", "done"} /\ tick_log # <<>>) =>
                /\ tick_log = FullTick
                /\ step_dt = <<1, FPS>>
                /\ prog = "marble" =>
                       binary_val = PositionalSum(mechanisms, Len(mechanisms))
                /\ prog = "single" =>
                       (parity = "PAR") = (Classify(mechanisms[1]) = "one")
          /\ pc = "done" => (~running /\ tick_log = FullTick))
    /\ [][/\ pc = "readout" => (gate_pos' = gate_pos /\ gate_timer' = gate_timer)
          /\ (pc = "events" /\ pc' # "events") => pc' = "physics"
          /\ (pc = "events" /\ ~running) => pc' \in {"events", "physics"}]_vars

C10_Witness ==
    /\ pc = "done"
    /\ tick_log = FullTick
    /\ gate_timer = GateOpenSteps - 1
    /\ total_marbles_launched = 1

====
